---- MODULE Spec2Model ----
(***************************************************************************)
(* Task execution and workflow composition of the RAG pipeline service:    *)
(* the FastAPI routes of src/api/routes/tasks.py publish Celery tasks      *)
(* (src/tasks/basic_tasks.py) to a Redis broker, worker processes execute  *)
(* them and write their state to the Redis result backend                  *)
(* (src/core/celery_app.py), and GET /tasks/status/{id} reads it back.     *)
(*                                                                         *)
(* Numbers are exact rationals <<n, d>> (d > 0, lowest terms): Python's    *)
(* x / y is true division, so 15 / 2 is 7.5 and not 7.                     *)
(* Task states carry Celery's names: PENDING, STARTED, RETRY, SUCCESS      *)
(* (Completed) and FAILURE (Failed).  PENDING is the state of an id the    *)
(* backend holds no record for.                                            *)
(*                                                                         *)
(* Spec is the task routes with their workers.  The other specifications   *)
(* put one more part of the program next to them: result expiry            *)
(* (StoreSpec), redelivery (RedeliverySpec), the route table (RouteSpec,   *)
(* InfoSpec), workers without the task modules (RegistrySpec), the RAG     *)
(* routes of src/api/routes/rag.py with their waits (RagSpec), the clock   *)
(* of the retry countdowns (TimeSpec), the hard time limit of an           *)
(* execution (LimitSpec), the retries under each route table (RetrySpec)   *)
(* and requests whose task bodies fail (FailSpec).  RateSpec is the rate   *)
(* limiter of src/api/rate_limit.py with its Redis keys and AuthSpec the   *)
(* API key dependencies of src/api/auth.py, each on its own.               *)
(***************************************************************************)
EXTENDS Integers, Sequences, FiniteSets, TLC

\* ------------------------------------------------------------------ bounds
MaxRequests == 1
NumWorkers == 2
\* the largest max_attempts a caller of check_task_status passes
MaxAttempts == 2
\* the rate_limit calls made, and the largest max_requests they are made with
MaxCalls == 2
MaxLimit == 1
\* the longest settings.api_keys and X-API-Key header tried, in characters
MaxLen == 3

\* the requests tried, as <<x, y, z>>: (10 + 20) / 5 and (10 + 5) + (10 / 2) of
\* scripts/python/test_tasks.py, and a zero divisor
Inputs == {<<10, 20, 5>>, <<10, 5, 2>>, <<10, 5, 0>>}

\* --------------------------------------------------------------- constants
\* @celery_app.task(name="tasks.divide_numbers", bind=True, max_retries=5)
max_retries == 5

\* a chord allocates three task ids, a chain two, a single task one
MaxIds == 3 * MaxRequests

\* a task id the API never hands out
UnknownId == MaxIds + 1
Ids == 1..UnknownId

PROCESS_DATA == "tasks.process_data"
ADD == "tasks.add_numbers"
DIVIDE == "tasks.divide_numbers"
AGGREGATE == "tasks.aggregate_results"
LOAD_PDF == "tasks.load_pdf"
SPLIT_DOCUMENTS == "tasks.split_documents"
CREATE_VECTORSTORE == "tasks.create_vectorstore"
QUERY_VECTORSTORE == "tasks.query_vectorstore"

\* the tasks whose body returns a dict with a "status" entry
RagTasks == {LOAD_PDF, SPLIT_DOCUMENTS, CREATE_VECTORSTORE, QUERY_VECTORSTORE}

\* the tasks src/workers/celery_worker.py registers by importing their modules
RegisteredTasks == {PROCESS_DATA, ADD, DIVIDE, AGGREGATE, LOAD_PDF,
                    SPLIT_DOCUMENTS, CREATE_VECTORSTORE, QUERY_VECTORSTORE}

\* ------------------------------------------------------------------ queues
\* src/core/queues.py: the queue names, the route table and the lookup
DEFAULT_QUEUE == "default"
AVAILABLE_QUEUES == {DEFAULT_QUEUE, "calculations"}

\* a route table with an entry for every registered task; qa, qd and qg are
\* the queues of the three tasks the workflows are built of
TaskRoutes(qa, qd, qg) ==
    [name \in RegisteredTasks |->
        CASE name = ADD -> qa
          [] name = DIVIDE -> qd
          [] name = AGGREGATE -> qg
          [] OTHER -> DEFAULT_QUEUE]

RouteTables ==
    {TaskRoutes(qa, qd, qg) : qa \in AVAILABLE_QUEUES, qd \in AVAILABLE_QUEUES,
                              qg \in AVAILABLE_QUEUES}

SharedRoutes == TaskRoutes(DEFAULT_QUEUE, DEFAULT_QUEUE, DEFAULT_QUEUE)

QUEUE_DESCRIPTIONS == [q \in {DEFAULT_QUEUE} |-> "Default queue"]

\* a task name no module registers
UNKNOWN_TASK == "tasks.unknown"

VARIABLES
    queue,        \* broker: the messages published and not yet delivered
    busy,         \* the busy worker processes: position in the task trace, message
    backend,      \* result backend: task id -> state, return value, error
    chordZ,       \* result backend: per chord (callback id) the parts returned so far
    chordSize,    \* result backend: per chord (callback id) the header size
    requests,     \* the workflow requests the API accepted, in order
    nextId,       \* the next fresh task id
    response,     \* the last answer of GET /tasks/status/{task_id}
    published,    \* per id: the submission as first published (history)
    executions,   \* per id: handler executions so far (history)
    retried,      \* per id: retry messages published so far (history)
    callbackSubmits, \* per chord: times the callback was published (history)
    redelivered,  \* the ids of the messages restored after a worker died (history)
    routes,       \* the route table: task name -> queue name (static configuration)
    registry,     \* the task names registered in the worker processes
    info,         \* the last answer of GET /tasks/info
    routed,       \* the last lookup of get_queue_for_task: name and queue
    sync,         \* the synchronous wait in progress: its route, task id and polls so far
    result_status,\* per id: the status entry of the dict the task body returned
    clock,        \* id -> seconds its execution has been running in the pool
    redis_client, \* rate_limit.redis_client: TRUE for a client, FALSE for None
    limit,        \* the max_requests and window rate_limit is called with
    now,          \* the wall clock, in seconds
    store,        \* Redis: key -> counter value and time of expiry
    calls,        \* the rate_limit calls: position, client, key, counter read, outcome
    auth          \* the API key check: settings.api_keys, the header and the two answers

vars == <<queue, busy, backend, chordZ, chordSize, requests, nextId, response,
          published, executions, retried, callbackSubmits, redelivered, routes,
          registry, info, routed, sync, result_status, clock, redis_client, limit, now,
          store, calls, auth>>

\* ---------------------------------------------------------------- numbers
Abs(n) == IF n < 0 THEN -n ELSE n

RECURSIVE GCD(_, _)
GCD(a, b) == IF b = 0 THEN a ELSE GCD(b, a % b)

\* the rational n / d in lowest terms with a positive denominator (d # 0)
Norm(n, d) ==
    LET g == GCD(Abs(n), Abs(d))
        s == IF d < 0 THEN -1 ELSE 1
    IN  <<(s * n) \div g, (s * d) \div g>>

Num(n) == <<n, 1>>
NoVal == <<0, 0>>

RatAdd(a, b) == Norm(a[1] * b[2] + b[1] * a[2], a[2] * b[2])
RatDiv(a, b) == Norm(a[1] * b[2], a[2] * b[1])
IsZero(a) == a[1] = 0

RECURSIVE Pow2(_)
Pow2(n) == IF n = 0 THEN 1 ELSE 2 * Pow2(n - 1)

\* ------------------------------------------------------------ task bodies
\* add_numbers_task(x, y): return x + y
add_numbers_task(args) == RatAdd(args[1], args[2])

\* divide_numbers_task(self, x, y): return x / y (for y # 0)
divide_numbers_task(args) == RatDiv(args[1], args[2])

\* divide_numbers_task raises ZeroDivisionError when y == 0
DivideRaises(args) == IsZero(args[2])

\* aggregate_results_task(results): return sum(results)
RECURSIVE aggregate_results_task(_)
aggregate_results_task(results) ==
    IF results = <<>> THEN Num(0)
    ELSE RatAdd(aggregate_results_task(Tail(results)), Head(results))

\* a str, by its number: <<s, 0>> with s > 0 names the request's data and
\* <<-s, 0>> the text "Processed: " followed by it
Str(s) == <<s, 0>>

\* process_data_task(data): time.sleep(20); return f"Processed: {data}"
process_data_task(args) == Str(-args[1][1])

\* sys.float_info.max, scaled down: the largest magnitude a float holds
FloatMax == 1000

\* an int no float holds, and half of it neither
Huge == 4 * FloatMax

\* float(a) raises OverflowError
TooLarge(a) == Abs(a[1]) > FloatMax * a[2]

\* the exception the body of a task raises on args, "" when it returns:
\* divide_numbers raises ZeroDivisionError for y == 0 and x / y an
\* OverflowError when the quotient of the two ints is too large for a float;
\* sum(results) adds the int of add_numbers and the float of divide_numbers
\* and raises OverflowError when the int is too large to be converted;
\* x + y of two ints and the f-string raise nothing
BodyError(task, args) ==
    CASE task = DIVIDE ->
             IF DivideRaises(args) THEN "ZeroDivisionError"
             ELSE IF TooLarge(divide_numbers_task(args)) THEN "OverflowError"
             ELSE ""
      [] task = AGGREGATE ->
             IF \E k \in 1..Len(args) : TooLarge(args[k]) THEN "OverflowError"
             ELSE ""
      [] OTHER -> ""

\* mutant: except Exception as exc
HandledAny(task, exc) == task = DIVIDE /\ exc # ""

\* the exception is taken by an except clause of the body that calls
\* self.retry: divide_numbers_task has except ZeroDivisionError as exc, the
\* other bodies have no try statement
Handled(task, exc) == task = DIVIDE /\ exc = "ZeroDivisionError"

\* mutant: a countdown growing by one second per retry
CountdownLinear(retries) == retries + 1

\* countdown = 2**self.request.retries
Countdown(retries) == Pow2(retries)

\* mutant: one retry too many (retries <= max_retries)
ShouldRetryOffByOne(retries) == retries <= max_retries

\* mutant: no retry limit (max_retries=None)
ShouldRetryAlways(retries) == TRUE

\* self.retry(exc=exc, countdown=countdown): a retry is scheduled while the
\* request's retries are below max_retries, otherwise exc is raised
ShouldRetry(retries) == retries < max_retries

RunBody(task, args) ==
    CASE task = ADD -> add_numbers_task(args)
      [] task = PROCESS_DATA -> process_data_task(args)
      [] task = DIVIDE -> divide_numbers_task(args)
      [] OTHER -> aggregate_results_task(args)

\* ------------------------------------------------------------- state shape
NoRecord == [state |-> "PENDING", retval |-> NoVal, error |-> ""]

NoResponse == [task_id |-> 0, http |-> 0, status |-> "", result |-> NoVal,
               error |-> ""]

\* a task message; queue is the queue it is published to, callback_queue
\* the queue set in the signature of its chord's callback, countdown the
\* seconds from its publication to its ETA and waited the seconds gone since
Message(id, task, args, chain, chord, index) ==
    [id |-> id, task |-> task, args |-> args, retries |-> 0, countdown |-> 0,
     waited |-> 0, chain |-> chain, chord |-> chord, index |-> index,
     queue |-> "", callback_queue |-> ""]

Signature(id, task, args) == [id |-> id, task |-> task, args |-> args, queue |-> ""]

\* apply_async(..., queue=queue) and signature.set(queue=queue)
Set(m, q) == [m EXCEPT !.queue = q]

\* get_queue_for_task(task_name): the queue of the route table, the default
\* queue for a name the table does not hold
get_queue_for_task(task_name) ==
    IF task_name \in DOMAIN routes THEN routes[task_name] ELSE DEFAULT_QUEUE

Submission(m) == [task |-> m.task, args |-> m.args]
NoSubmission == [task |-> "", args |-> <<>>]

\* ------------------------------------------------------------ rate limiter
\* strftime("%Y%m%d%H%M"): the key names the calendar minute, 60 seconds
MINUTE == 60

\* the clock moves in half minutes, over one minute and the half of the next
Step == MINUTE \div 2
Horizon == MINUTE + Step

current_minute(t) == t \div MINUTE

\* request.client.host, or "unknown" for a request without a client
Clients == {"10.0.0.1", "unknown"}

\* the windows rate_limit is called with: the default and a shorter one
Windows == {MINUTE \div 2, MINUTE}

\* f"{key_prefix}:{client_ip}:{current_minute}", under one key_prefix
Key(client_ip, t) == <<client_ip, current_minute(t)>>
Keys == Clients \X (0..current_minute(Horizon))

\* a key Redis does not hold reads 0; expire_at = 0: no expiry is set
NoKey == [value |-> 0, expire_at |-> 0]

CallIds == 1..MaxCalls
NoCall == [pc |-> "idle", client_ip |-> "", at |-> 0, key |-> <<"", 0>>,
           current |-> 0, outcome |-> "", error |-> ""]

Limit(max_requests, window) == [max_requests |-> max_requests, window |-> window]

\* ------------------------------------------------------- API keys (auth.py)
\* strings are sequences of characters: two letters, the comma that
\* separates the keys of settings.api_keys, and the blank
Chars == {"a", "b", ",", " "}

Strings == UNION {[1..n -> Chars] : n \in 0..MaxLen}

\* Python's None: the header is absent (auto_error=False), or nothing is returned
None == <<"None">>

\* str.split(sep): the pieces between the separators, empty ones included
RECURSIVE Split(_, _)
Split(str, sep) ==
    IF \A i \in 1..Len(str) : str[i] # sep
    THEN <<str>>
    ELSE LET i == CHOOSE j \in 1..Len(str) :
                      str[j] = sep /\ \A h \in 1..(j - 1) : str[h] # sep
         IN <<SubSeq(str, 1, i - 1)>> \o Split(SubSeq(str, i + 1, Len(str)), sep)

\* mutant: the keys taken as they stand between the commas
Unstripped(str) == str

\* str.strip(): without its leading and trailing blanks
RECURSIVE Strip(_)
Strip(str) ==
    IF str = <<>> THEN str
    ELSE IF Head(str) = " " THEN Strip(Tail(str))
    ELSE IF str[Len(str)] = " " THEN Strip(SubSeq(str, 1, Len(str) - 1))
    ELSE str

\* [key.strip() for key in valid_keys if key.strip()]
RECURSIVE Stripped(_)
Stripped(keys) ==
    IF keys = <<>> THEN <<>>
    ELSE (IF Strip(Head(keys)) # <<>> THEN <<Strip(Head(keys))>> ELSE <<>>)
             \o Stripped(Tail(keys))

\* valid_keys = getattr(settings, "api_keys", "").split(","), stripped
valid_keys(api_keys) == Stripped(Split(api_keys, ","))

\* api_key in valid_keys
In(api_key, keys) == \E i \in 1..Len(keys) : keys[i] = api_key

\* what a dependency gives: the HTTP status (200: it returned) and the value
Answer(http, value) == [http |-> http, value |-> value]
NoAnswer == Answer(0, None)

\* not api_key: None or the empty string
Missing(api_key) == api_key = None \/ api_key = <<>>

verify_api_key(api_keys, api_key) ==
    IF Missing(api_key) THEN Answer(401, None)
    ELSE IF valid_keys(api_keys) = <<>> \/ ~In(api_key, valid_keys(api_keys))
    THEN Answer(403, None)
    ELSE Answer(200, api_key)

optional_api_key(api_keys, api_key) ==
    IF Missing(api_key) THEN Answer(200, None)
    ELSE IF In(api_key, valid_keys(api_keys)) THEN Answer(200, api_key)
    ELSE Answer(200, None)

\* the API key check not yet made
NoAuth == [api_keys |-> <<>>, api_key |-> None, verify |-> NoAnswer,
           optional |-> NoAnswer]

\* no synchronous wait in progress
Idle == [route |-> "", pc |-> "idle", id |-> 0, polls |-> 0, max_attempts |-> 0,
         http |-> 0, task_ids |-> <<>>]

NoInfo == [queues |-> {}, tasks |-> {}]
NoRouted == [name |-> "", queue |-> ""]

\* the state the task processes start in, given the route table of
\* src/core/queues.py and the tasks the worker module registers
Workers(TASK_ROUTES, tasks) ==
    /\ queue = {}
    /\ busy = {}
    /\ backend = [i \in Ids |-> NoRecord]
    /\ chordZ = [i \in Ids |-> {}]
    /\ chordSize = [i \in Ids |-> 0]
    /\ requests = <<>>
    /\ nextId = 1
    /\ response = NoResponse
    /\ published = [i \in Ids |-> NoSubmission]
    /\ executions = [i \in Ids |-> 0]
    /\ retried = [i \in Ids |-> 0]
    /\ callbackSubmits = [i \in Ids |-> 0]
    /\ redelivered = {}
    /\ routes = TASK_ROUTES
    /\ registry = tasks
    /\ info = NoInfo
    /\ routed = NoRouted
    /\ sync = Idle
    /\ result_status = [i \in Ids |-> ""]
    /\ clock = [id \in Ids |-> 0]

\* the rate limiter as its module is imported: redis.from_url gave a client
\* or raised (redis_client = None), no key is stored yet; and the arguments
\* its callers pass
Limiter(client, max_requests, window) ==
    /\ redis_client = client
    /\ limit = Limit(max_requests, window)
    /\ now = 0
    /\ store = [k \in Keys |-> NoKey]
    /\ calls = [c \in CallIds |-> NoCall]

\* everything at its start; the rate limiter with its default arguments
\* (max_requests: int = 60, window: int = 60)
Boot(TASK_ROUTES, tasks) ==
    /\ Workers(TASK_ROUTES, tasks)
    /\ Limiter(TRUE, 60, 60)
    /\ auth = NoAuth

Init == Boot(SharedRoutes, RegisteredTasks)

\* ------------------------------------------------------------- API routes
Request(kind, x, y, z, ids, returned) ==
    [kind |-> kind, x |-> x, y |-> y, z |-> z, ids |-> ids, returned |-> returned]

\* POST /tasks/calculate/add
AddNumbers(x, y) ==
    LET queue_ == get_queue_for_task(ADD)
        m == Set(Message(nextId, ADD, <<Num(x), Num(y)>>, <<>>, 0, 0), queue_)
    IN
    /\ Len(requests) < MaxRequests
    /\ queue' = queue \cup {m}
    /\ published' = [published EXCEPT ![nextId] = Submission(m)]
    /\ requests' = Append(requests, Request("add", x, y, 0, <<nextId>>, nextId))
    /\ nextId' = nextId + 1
    /\ UNCHANGED <<busy, backend, chordZ, chordSize, response, executions, retried,
                   callbackSubmits, redelivered, routes, registry, info, routed, sync,
                   result_status, clock, redis_client, limit, now, store, calls, auth>>

\* POST /tasks/process
ProcessData(data) ==
    LET queue_ == get_queue_for_task(PROCESS_DATA)
        m == Set(Message(nextId, PROCESS_DATA, <<Str(data)>>, <<>>, 0, 0), queue_)
    IN
    /\ Len(requests) < MaxRequests
    /\ queue' = queue \cup {m}
    /\ published' = [published EXCEPT ![nextId] = Submission(m)]
    /\ requests' = Append(requests, Request("process", data, 0, 0, <<nextId>>, nextId))
    /\ nextId' = nextId + 1
    /\ UNCHANGED <<busy, backend, chordZ, chordSize, response, executions, retried,
                   callbackSubmits, redelivered, routes, registry, info, routed, sync,
                   result_status, clock, redis_client, limit, now, store, calls, auth>>

\* POST /tasks/calculate/divide
DivideNumbers(x, y) ==
    LET queue_ == get_queue_for_task(DIVIDE)
        m == Set(Message(nextId, DIVIDE, <<Num(x), Num(y)>>, <<>>, 0, 0), queue_)
    IN
    /\ Len(requests) < MaxRequests
    /\ queue' = queue \cup {m}
    /\ published' = [published EXCEPT ![nextId] = Submission(m)]
    /\ requests' = Append(requests, Request("divide", x, 0, y, <<nextId>>, nextId))
    /\ nextId' = nextId + 1
    /\ UNCHANGED <<busy, backend, chordZ, chordSize, response, executions, retried,
                   callbackSubmits, redelivered, routes, registry, info, routed, sync,
                   result_status, clock, redis_client, limit, now, store, calls, auth>>

\* mutant: the two steps submitted side by side, as a group, not as a chain
ExecuteChainAsGroup(x, y, divisor) ==
    LET first == nextId
        last == nextId + 1
        queue_ == get_queue_for_task(ADD)
        m1 == Set(Message(first, ADD, <<Num(x), Num(y)>>, <<>>, 0, 0), queue_)
        m2 == Set(Message(last, DIVIDE, <<Num(x), Num(divisor)>>, <<>>, 0, 0), queue_)
    IN
    /\ Len(requests) < MaxRequests
    /\ queue' = queue \cup {m1, m2}
    /\ published' = [published EXCEPT ![first] = Submission(m1),
                                      ![last] = Submission(m2)]
    /\ requests' = Append(requests,
                          Request("chain", x, y, divisor, <<first, last>>, last))
    /\ nextId' = nextId + 2
    /\ UNCHANGED <<busy, backend, chordZ, chordSize, response, executions, retried,
                   callbackSubmits, redelivered, routes, registry, info, routed, sync,
                   result_status, clock, redis_client, limit, now, store, calls, auth>>

\* POST /tasks/workflow/chain: chain(add.s(x, y), divide.s(divisor)).apply_async()
\* publishes the first step carrying the rest of the chain and returns the
\* result of the last step; queue = get_queue_for_task("tasks.add_numbers")
\* is set in both signatures
ExecuteChainWorkflow(x, y, divisor) ==
    LET first == nextId
        last == nextId + 1
        queue_ == get_queue_for_task(ADD)
        m == Set(Message(first, ADD, <<Num(x), Num(y)>>,
                         <<Set(Signature(last, DIVIDE, <<Num(divisor)>>), queue_)>>,
                         0, 0), queue_)
    IN
    /\ Len(requests) < MaxRequests
    /\ queue' = queue \cup {m}
    /\ published' = [published EXCEPT ![first] = Submission(m)]
    /\ requests' = Append(requests,
                          Request("chain", x, y, divisor, <<first, last>>, last))
    /\ nextId' = nextId + 2
    /\ UNCHANGED <<busy, backend, chordZ, chordSize, response, executions, retried,
                   callbackSubmits, redelivered, routes, registry, info, routed, sync,
                   result_status, clock, redis_client, limit, now, store, calls, auth>>

\* POST /tasks/workflow/parallel: chord(group(add.s(x, y), divide.s(x, z)))(aggregate.s())
\* publishes both header members, each carrying the chord and its position
\* in the header, and returns the result of the callback;
\* queue = get_queue_for_task("tasks.add_numbers") is set in all three
\* signatures
ExecuteParallelWorkflow(x, y, z) ==
    LET h1 == nextId
        h2 == nextId + 1
        cb == nextId + 2
        queue_ == get_queue_for_task(ADD)
        m1 == [Set(Message(h1, ADD, <<Num(x), Num(y)>>, <<>>, cb, 1), queue_)
                  EXCEPT !.callback_queue = queue_]
        m2 == [Set(Message(h2, DIVIDE, <<Num(x), Num(z)>>, <<>>, cb, 2), queue_)
                  EXCEPT !.callback_queue = queue_]
    IN
    /\ Len(requests) < MaxRequests
    /\ queue' = queue \cup {m1, m2}
    /\ chordSize' = [chordSize EXCEPT ![cb] = 2]
    /\ published' = [published EXCEPT ![h1] = Submission(m1), ![h2] = Submission(m2)]
    /\ requests' = Append(requests, Request("chord", x, y, z, <<h1, h2, cb>>, cb))
    /\ nextId' = nextId + 3
    /\ UNCHANGED <<busy, backend, chordZ, response, executions, retried,
                   callbackSubmits, redelivered, routes, registry, info, routed, sync,
                   result_status, clock, redis_client, limit, now, store, calls, auth>>

\* AsyncResult.ready(): the state is one of celery.states.READY_STATES
Ready(id) == backend[id].state \in {"SUCCESS", "FAILURE"}

\* get_task_status: "Completed" with task_result.get() once the result is
\* ready, "Pending" otherwise.  get() of a FAILURE result re-raises the
\* task's exception, which leaves the route as an unhandled error (HTTP 500).
StatusResponse(id) ==
    IF Ready(id)
    THEN IF backend[id].state = "SUCCESS"
         THEN [task_id |-> id, http |-> 200, status |-> "Completed",
               result |-> backend[id].retval, error |-> ""]
         ELSE [task_id |-> id, http |-> 500, status |-> "", result |-> NoVal,
               error |-> backend[id].error]
    ELSE [task_id |-> id, http |-> 200, status |-> "Pending", result |-> NoVal,
          error |-> ""]

\* GET /tasks/status/{task_id}
GetTaskStatus(id) ==
    /\ response' = StatusResponse(id)
    /\ UNCHANGED <<queue, busy, backend, chordZ, chordSize, requests, nextId, published,
                   executions, retried, callbackSubmits, redelivered, routes, registry,
                   info, routed, sync, result_status, clock, redis_client, limit, now,
                   store, calls, auth>>

\* mutant: only the tasks routed to a queue with a description are listed
TaskInfoDescribed ==
    [queues |-> {[name |-> q,
                  description |-> IF q \in DOMAIN QUEUE_DESCRIPTIONS
                                  THEN QUEUE_DESCRIPTIONS[q] ELSE ""] :
                     q \in AVAILABLE_QUEUES},
     tasks |-> {[name |-> task_name, queue |-> routes[task_name]] :
                     task_name \in {t \in DOMAIN routes :
                                       routes[t] \in DOMAIN QUEUE_DESCRIPTIONS}}]

\* the body of GET /tasks/info: the queues with their descriptions
\* (QUEUE_DESCRIPTIONS.get(queue, "")) and every item of TASK_ROUTES; the
\* two lists are taken as sets
TaskInfo ==
    [queues |-> {[name |-> q,
                  description |-> IF q \in DOMAIN QUEUE_DESCRIPTIONS
                                  THEN QUEUE_DESCRIPTIONS[q] ELSE ""] :
                     q \in AVAILABLE_QUEUES},
     tasks |-> {[name |-> task_name, queue |-> routes[task_name]] :
                     task_name \in DOMAIN routes}]

\* GET /tasks/info
GetTaskInfo ==
    /\ info' = TaskInfo
    /\ UNCHANGED <<queue, busy, backend, chordZ, chordSize, requests, nextId, response,
                   published, executions, retried, callbackSubmits, redelivered, routes,
                   registry, routed, sync, result_status, clock, redis_client, limit,
                   now, store, calls, auth>>

\* a call of get_queue_for_task(task_name)
RouteFor(task_name) ==
    /\ routed' = [name |-> task_name, queue |-> get_queue_for_task(task_name)]
    /\ UNCHANGED <<queue, busy, backend, chordZ, chordSize, requests, nextId, response,
                   published, executions, retried, callbackSubmits, redelivered, routes,
                   registry, info, sync, result_status, clock, redis_client, limit, now,
                   store, calls, auth>>

\* ------------------------------------------------------------- RAG routes
\* the cap of the model on the polls of one wait
PollCap == MaxAttempts + 1

RagMessage(id, task) == Set(Message(id, task, <<>>, <<>>, 0, 0), get_queue_for_task(task))

Waiting(route, pc, id, task_ids) ==
    [route |-> route, pc |-> pc, id |-> id, polls |-> 0, max_attempts |-> 0,
     http |-> 0, task_ids |-> task_ids]

\* the route returns, or raises HTTPException, with this status code
Returns(http, task_ids) ==
    [sync EXCEPT !.pc = "returned", !.http = http, !.task_ids = task_ids]

\* POST /rag/query: the query task is published and its id returned
QueryVectorstore ==
    LET m == RagMessage(nextId, QUERY_VECTORSTORE) IN
    /\ Len(requests) < MaxRequests
    /\ queue' = queue \cup {m}
    /\ published' = [published EXCEPT ![nextId] = Submission(m)]
    /\ requests' = Append(requests, Request("query", 0, 0, 0, <<nextId>>, nextId))
    /\ nextId' = nextId + 1
    /\ UNCHANGED <<busy, backend, chordZ, chordSize, response, executions, retried,
                   callbackSubmits, redelivered, routes, registry, info, routed, sync,
                   result_status, clock, redis_client, limit, now, store, calls, auth>>

\* POST /rag/query/sync: the query task is published and the route waits in
\* query_task.get()
QueryVectorstoreSync ==
    LET m == RagMessage(nextId, QUERY_VECTORSTORE) IN
    /\ sync.pc \in {"idle", "returned"}
    /\ Len(requests) < MaxRequests
    /\ queue' = queue \cup {m}
    /\ published' = [published EXCEPT ![nextId] = Submission(m)]
    /\ requests' = Append(requests, Request("query_sync", 0, 0, 0, <<nextId>>, 0))
    /\ nextId' = nextId + 1
    /\ sync' = Waiting("query_vectorstore_sync", "query_task", nextId, <<>>)
    /\ UNCHANGED <<busy, backend, chordZ, chordSize, response, executions, retried,
                   callbackSubmits, redelivered, routes, registry, info, routed,
                   result_status, clock, redis_client, limit, now, store, calls, auth>>

\* POST /rag/pipeline: the load task is published and the route waits in
\* pdf_task.get()
RunRagPipeline ==
    LET m == RagMessage(nextId, LOAD_PDF) IN
    /\ sync.pc \in {"idle", "returned"}
    /\ Len(requests) < MaxRequests
    /\ queue' = queue \cup {m}
    /\ published' = [published EXCEPT ![nextId] = Submission(m)]
    /\ requests' = Append(requests, Request("pipeline", 0, 0, 0, <<nextId>>, 0))
    /\ nextId' = nextId + 1
    /\ sync' = Waiting("run_rag_pipeline", "pdf_task", nextId, <<nextId>>)
    /\ UNCHANGED <<busy, backend, chordZ, chordSize, response, executions, retried,
                   callbackSubmits, redelivered, routes, registry, info, routed,
                   result_status, clock, redis_client, limit, now, store, calls, auth>>

\* AsyncResult.get() with no timeout: the result is not ready, the route
\* goes on waiting
Get ==
    /\ sync.pc \in {"pdf_task", "transform_task", "query_task"}
    /\ ~Ready(sync.id)
    /\ sync.polls < PollCap
    /\ sync' = [sync EXCEPT !.polls = @ + 1]
    /\ UNCHANGED <<queue, busy, backend, chordZ, chordSize, requests, nextId, response,
                   published, executions, retried, callbackSubmits, redelivered, routes,
                   registry, info, routed, result_status, clock, redis_client, limit,
                   now, store, calls, auth>>

\* mutant: the split task published whatever pdf_task.get() returned
PdfResultUnchecked ==
    LET m == RagMessage(nextId, SPLIT_DOCUMENTS) IN
    /\ sync.pc = "pdf_task"
    /\ Ready(sync.id)
    /\ queue' = queue \cup {m}
    /\ published' = [published EXCEPT ![nextId] = Submission(m)]
    /\ nextId' = nextId + 1
    /\ sync' = Waiting("run_rag_pipeline", "transform_task", nextId,
                       Append(sync.task_ids, nextId))
    /\ UNCHANGED <<busy, backend, chordZ, chordSize, requests, response, executions,
                   retried, callbackSubmits, redelivered, routes, registry, info,
                   routed, result_status, clock, redis_client, limit, now, store, calls,
                   auth>>

\* pdf_task.get() returns: an "error" dict ends the route with HTTP 400 (a
\* FAILURE raises, HTTP 500), otherwise the split task is published and the
\* route waits in transform_task.get()
PdfResult ==
    LET m == RagMessage(nextId, SPLIT_DOCUMENTS) IN
    /\ sync.pc = "pdf_task"
    /\ Ready(sync.id)
    /\ IF backend[sync.id].state = "SUCCESS" /\ result_status[sync.id] # "error"
       THEN /\ queue' = queue \cup {m}
            /\ published' = [published EXCEPT ![nextId] = Submission(m)]
            /\ nextId' = nextId + 1
            /\ sync' = Waiting("run_rag_pipeline", "transform_task", nextId,
                               Append(sync.task_ids, nextId))
       ELSE /\ sync' = Returns(IF backend[sync.id].state = "SUCCESS" THEN 400 ELSE 500,
                               sync.task_ids)
            /\ UNCHANGED <<queue, published, nextId>>
    /\ UNCHANGED <<busy, backend, chordZ, chordSize, requests, response, executions,
                   retried, callbackSubmits, redelivered, routes, registry, info,
                   routed, result_status, clock, redis_client, limit, now, store, calls,
                   auth>>

\* transform_task.get() returns: an "error" dict ends the route with HTTP 400,
\* otherwise the vectorstore task is published and the three ids returned
TransformResult ==
    LET m == RagMessage(nextId, CREATE_VECTORSTORE) IN
    /\ sync.pc = "transform_task"
    /\ Ready(sync.id)
    /\ IF backend[sync.id].state = "SUCCESS" /\ result_status[sync.id] # "error"
       THEN /\ queue' = queue \cup {m}
            /\ published' = [published EXCEPT ![nextId] = Submission(m)]
            /\ nextId' = nextId + 1
            /\ sync' = Returns(200, Append(sync.task_ids, nextId))
       ELSE /\ sync' = Returns(IF backend[sync.id].state = "SUCCESS" THEN 400 ELSE 500,
                               sync.task_ids)
            /\ UNCHANGED <<queue, published, nextId>>
    /\ UNCHANGED <<busy, backend, chordZ, chordSize, requests, response, executions,
                   retried, callbackSubmits, redelivered, routes, registry, info,
                   routed, result_status, clock, redis_client, limit, now, store, calls,
                   auth>>

\* query_task.get() returns: HTTP 500 for an "error" dict, else the answer
QueryResult ==
    /\ sync.pc = "query_task"
    /\ Ready(sync.id)
    /\ sync' = Returns(IF backend[sync.id].state = "SUCCESS"
                          /\ result_status[sync.id] # "error" THEN 200 ELSE 500,
                       sync.task_ids)
    /\ UNCHANGED <<queue, busy, backend, chordZ, chordSize, requests, nextId, response,
                   published, executions, retried, callbackSubmits, redelivered, routes,
                   registry, info, routed, result_status, clock, redis_client, limit,
                   now, store, calls, auth>>

\* scripts/python/test_tasks.py: check_task_status(task_id, max_attempts)
CheckTaskStatus(task_id, max_attempts) ==
    /\ sync.pc \in {"idle", "returned"}
    /\ sync' = [Waiting("check_task_status", "attempt", task_id, <<>>)
                   EXCEPT !.max_attempts = max_attempts]
    /\ UNCHANGED <<queue, busy, backend, chordZ, chordSize, requests, nextId, response,
                   published, executions, retried, callbackSubmits, redelivered, routes,
                   registry, info, routed, result_status, clock, redis_client, limit,
                   now, store, calls, auth>>

\* one attempt of check_task_status: GET /tasks/status/{task_id}; the helper
\* returns the data when the status is "Completed", None when the request
\* fails (raise_for_status) and None after the last attempt
Attempt ==
    LET data == StatusResponse(sync.id)
        attempt == sync.polls + 1
    IN
    /\ sync.pc = "attempt"
    /\ response' = data
    /\ sync' = [sync EXCEPT
                   !.polls = attempt,
                   !.http = data.http,
                   !.pc = IF data.http # 200 \/ data.status = "Completed"
                             \/ attempt >= sync.max_attempts
                          THEN "returned" ELSE "attempt"]
    /\ UNCHANGED <<queue, busy, backend, chordZ, chordSize, requests, nextId, published,
                   executions, retried, callbackSubmits, redelivered, routes, registry,
                   info, routed, result_status, clock, redis_client, limit, now, store,
                   calls, auth>>

\* ---------------------------------------------------------------- workers
SetState(id, state, retval, error) ==
    [backend EXCEPT ![id] = [state |-> state, retval |-> retval, error |-> error]]

Trace(pc, m, retval) == [pc |-> pc, msg |-> m, retval |-> retval]

\* the trace t of a busy worker moves on to position pc
Move(t, pc) == (busy \ {t}) \cup {[t EXCEPT !.pc = pc]}

\* after the result is stored a chord member reports its part; any other
\* task is finished and its worker is free again
AfterStore(t) == IF t.msg.chord # 0 THEN Move(t, "part") ELSE busy \ {t}

\* a free worker takes a message of a task it has registered off the queue;
\* the message is not yet acknowledged
Reserve(m) ==
    /\ Cardinality(busy) < NumWorkers
    /\ m \in queue
    /\ m.task \in registry
    /\ queue' = queue \ {m}
    /\ busy' = busy \cup {Trace("reserved", m, NoVal)}
    /\ UNCHANGED <<backend, chordZ, chordSize, requests, nextId, response, published,
                   executions, retried, callbackSubmits, redelivered, routes, registry,
                   info, routed, sync, result_status, clock, redis_client, limit, now,
                   store, calls, auth>>

\* mutant: the message of an unregistered task is discarded and nothing is
\* stored
UnknownTaskDropped(m) ==
    /\ m \in queue
    /\ m.task \notin registry
    /\ queue' = queue \ {m}
    /\ UNCHANGED <<busy, backend, chordZ, chordSize, requests, nextId, response,
                   published, executions, retried, callbackSubmits, redelivered, routes,
                   registry, info, routed, sync, result_status, clock, redis_client,
                   limit, now, store, calls, auth>>

\* a worker receives a message of a task it has not registered: the consumer
\* rejects the message, stores FAILURE (NotRegistered) and goes on consuming;
\* no pool process is taken and the handler, unknown, is not run
UnknownTask(m) ==
    /\ m \in queue
    /\ m.task \notin registry
    /\ queue' = queue \ {m}
    /\ backend' = SetState(m.id, "FAILURE", NoVal, "NotRegistered")
    /\ UNCHANGED <<busy, chordZ, chordSize, requests, nextId, response, published,
                   executions, retried, callbackSubmits, redelivered, routes, registry,
                   info, routed, sync, result_status, clock, redis_client, limit, now,
                   store, calls, auth>>

\* task_time_limit=3600: the hard time limit of one execution, in seconds
task_time_limit == 3600

\* the step of the pool's clock: half the limit
Quantum == task_time_limit \div 2

\* mutant: the time of the executions before counts against the limit
AcceptedOnOldClock(c, id) == c

\* the pool accepts a job: the time limit of the execution runs from now
\* (a retry is a new message and a new job)
Accepted(c, id) == [c EXCEPT ![id] = 0]

\* mutant: task_track_started left off, STARTED is never stored
StartUntracked(t) ==
    /\ t.pc = "reserved"
    /\ busy' = Move(t, "running")
    /\ UNCHANGED <<queue, backend, chordZ, chordSize, requests, nextId, response,
                   published, executions, retried, callbackSubmits, redelivered, routes,
                   registry, info, routed, sync, result_status, clock, redis_client,
                   limit, now, store, calls, auth>>

\* the pool accepts the task: the message is acknowledged (acks_late is not
\* set) and, with task_track_started=True, STARTED is stored
Start(t) ==
    /\ t.pc = "reserved"
    /\ backend' = SetState(t.msg.id, "STARTED", NoVal, "")
    /\ busy' = Move(t, "running")
    /\ clock' = Accepted(clock, t.msg.id)
    /\ UNCHANGED <<queue, chordZ, chordSize, requests, nextId, response, published,
                   executions, retried, callbackSubmits, redelivered, routes, registry,
                   info, routed, sync, result_status, redis_client, limit, now, store,
                   calls, auth>>

\* the same, on the clock: a worker holds a message with an ETA and the
\* pool gets the task once the countdown is over
StartDue(t) ==
    /\ t.msg.waited >= t.msg.countdown
    /\ Start(t)

\* a message one second later, while its countdown runs
Age(m) == IF m.waited < m.countdown THEN [m EXCEPT !.waited = @ + 1] ELSE m

\* a second passes for every message that waits for its ETA, in the queue or
\* held by a worker
Tick ==
    /\ \E m \in queue \cup {t.msg : t \in {u \in busy : u.pc = "reserved"}} :
           m.waited < m.countdown
    /\ queue' = {Age(m) : m \in queue}
    /\ busy' = {IF t.pc = "reserved" THEN [t EXCEPT !.msg = Age(t.msg)] ELSE t :
                   t \in busy}
    /\ UNCHANGED <<backend, chordZ, chordSize, requests, nextId, response, published,
                   executions, retried, callbackSubmits, redelivered, routes, registry,
                   info, routed, sync, result_status, clock, redis_client, limit, now,
                   store, calls, auth>>

\* mutant: the carried value appended to the signature's arguments
ChainStepAppend(sig, retval, rest) ==
    Set(Message(sig.id, sig.task, sig.args \o <<retval>>, rest, 0, 0), sig.queue)

\* the next step of a chain, given the return value of the step before it:
\* the value is prepended to the arguments the signature was built with
ChainStep(sig, retval, rest) ==
    Set(Message(sig.id, sig.task, <<retval>> \o sig.args, rest, 0, 0), sig.queue)

\* mutant: the request published again as it was delivered, its retries not
\* counted
RetryMessageUncounted(m) ==
    [m EXCEPT !.countdown = Countdown(m.retries), !.waited = 0]

\* the message self.retry publishes: the same request, retries + 1, delayed
RetryMessage(m) ==
    [m EXCEPT !.retries = m.retries + 1, !.countdown = Countdown(m.retries),
              !.waited = 0]

BodyRaises(m) == Handled(m.task, BodyError(m.task, m.args))

\* the task body returns: the next step of the chain, if any, is published
\* with the return value, before the result is stored
ExecuteReturn(t) ==
    LET m == t.msg
        r == RunBody(m.task, m.args)
    IN
    /\ t.pc = "running"
    /\ m.task \notin RagTasks
    /\ BodyError(m.task, m.args) = ""
    /\ executions' = [executions EXCEPT ![m.id] = @ + 1]
    /\ IF m.chain # <<>>
       THEN LET n == ChainStep(Head(m.chain), r, Tail(m.chain)) IN
            /\ queue' = queue \cup {n}
            /\ published' = [published EXCEPT ![n.id] = Submission(n)]
       ELSE UNCHANGED <<queue, published>>
    /\ busy' = (busy \ {t}) \cup {Trace("applied", m, r)}
    /\ UNCHANGED <<backend, chordZ, chordSize, requests, nextId, response, retried,
                   callbackSubmits, redelivered, routes, registry, info, routed, sync,
                   result_status, clock, redis_client, limit, now, store, calls, auth>>

\* the body of a RAG task returns a dict: "success" with the service's
\* result, or, the service having raised (ok = FALSE), the "error" dict of the
\* except clause
ExecuteRag(t, ok) ==
    LET m == t.msg IN
    /\ t.pc = "running"
    /\ m.task \in RagTasks
    /\ executions' = [executions EXCEPT ![m.id] = @ + 1]
    /\ result_status' = [result_status EXCEPT
                            ![m.id] = IF ok THEN "success" ELSE "error"]
    /\ busy' = (busy \ {t}) \cup {Trace("applied", m, NoVal)}
    /\ UNCHANGED <<queue, backend, chordZ, chordSize, requests, nextId, response,
                   published, retried, callbackSubmits, redelivered, routes, registry,
                   info, routed, sync, clock, redis_client, limit, now, store, calls,
                   auth>>

\* the body raises ZeroDivisionError and self.retry schedules a retry: the
\* request is published again with a countdown and RETRY is stored
ExecuteRetry(t) ==
    LET m == t.msg IN
    /\ t.pc = "running"
    /\ BodyRaises(m)
    /\ ShouldRetry(m.retries)
    /\ executions' = [executions EXCEPT ![m.id] = @ + 1]
    /\ retried' = [retried EXCEPT ![m.id] = @ + 1]
    /\ queue' = queue \cup {RetryMessage(m)}
    /\ backend' = SetState(m.id, "RETRY", NoVal, "ZeroDivisionError")
    /\ busy' = busy \ {t}
    /\ UNCHANGED <<chordZ, chordSize, requests, nextId, response, published,
                   callbackSubmits, redelivered, routes, registry, info, routed, sync,
                   result_status, clock, redis_client, limit, now, store, calls, auth>>

\* the body raises and the retries are used up: self.retry raises the
\* exception itself, FAILURE is stored for the task and for what is left of
\* its chain, and a chord member goes on to report its part
ExecuteFail(t) ==
    LET m == t.msg
        rest == {m.chain[k].id : k \in 1..Len(m.chain)}
    IN
    /\ t.pc = "running"
    /\ BodyRaises(m)
    /\ ~ShouldRetry(m.retries)
    /\ executions' = [executions EXCEPT ![m.id] = @ + 1]
    /\ backend' = [i \in Ids |->
                      IF i = m.id \/ i \in rest
                      THEN [state |-> "FAILURE", retval |-> NoVal,
                            error |-> "ZeroDivisionError"]
                      ELSE backend[i]]
    /\ busy' = AfterStore(t)
    /\ UNCHANGED <<queue, chordZ, chordSize, requests, nextId, response, published,
                   retried, callbackSubmits, redelivered, routes, registry, info,
                   routed, sync, result_status, clock, redis_client, limit, now, store,
                   calls, auth>>

\* the body raises an exception that no except clause of it takes: FAILURE
\* is stored for the task and for what is left of its chain, and a chord
\* member goes on to report its part
ExecuteError(t) ==
    LET m == t.msg
        exc == BodyError(m.task, m.args)
        rest == {m.chain[k].id : k \in 1..Len(m.chain)}
    IN
    /\ t.pc = "running"
    /\ m.task \notin RagTasks
    /\ exc # ""
    /\ ~Handled(m.task, exc)
    /\ executions' = [executions EXCEPT ![m.id] = @ + 1]
    /\ backend' = [i \in Ids |->
                      IF i = m.id \/ i \in rest
                      THEN [state |-> "FAILURE", retval |-> NoVal, error |-> exc]
                      ELSE backend[i]]
    /\ busy' = AfterStore(t)
    /\ UNCHANGED <<queue, chordZ, chordSize, requests, nextId, response, published,
                   retried, callbackSubmits, redelivered, routes, registry, info,
                   routed, sync, result_status, clock, redis_client, limit, now,
                   store, calls, auth>>

\* mark_as_done: SUCCESS and the return value are stored
MarkDone(t) ==
    /\ t.pc = "applied"
    /\ backend' = SetState(t.msg.id, "SUCCESS", t.retval, "")
    /\ busy' = AfterStore(t)
    /\ UNCHANGED <<queue, chordZ, chordSize, requests, nextId, response, published,
                   executions, retried, callbackSubmits, redelivered, routes, registry,
                   info, routed, sync, result_status, clock, redis_client, limit, now,
                   store, calls, auth>>

\* mutant: the parts read back in descending position
RECURSIVE InReverseOrder(_, _, _)
InReverseOrder(parts, k, n) ==
    IF k > n THEN <<>>
    ELSE LET here == {p \in parts : p.index = k} IN
         InReverseOrder(parts, k + 1, n)
             \o (IF here = {} THEN <<>> ELSE <<(CHOOSE p \in here : TRUE)>>)

\* the header results of a chord in the order of their position in the header
RECURSIVE InHeaderOrder(_, _, _)
InHeaderOrder(parts, k, n) ==
    IF k > n THEN <<>>
    ELSE LET here == {p \in parts : p.index = k} IN
         (IF here = {} THEN <<>> ELSE <<(CHOOSE p \in here : TRUE)>>)
             \o InHeaderOrder(parts, k + 1, n)

\* mutant: the callback fired by whichever part returns
ChordCompleteOnAnyPart(readycount, total) == readycount >= 1

\* the chord is complete when as many parts returned as the header has members
ChordComplete(readycount, total) == readycount = total

Retvals(seq) == [k \in 1..Len(seq) |-> seq[k].retval]

\* on_chord_part_return of the Redis backend: the part is added and counted
\* in one transaction; the member that completes the chord unpacks the
\* parts in header order and publishes the callback with them, or, when a
\* part is a FAILURE, stores FAILURE (ChordError) for the callback instead
ChordPartReturn(t) ==
    LET m == t.msg
        cb == m.chord
        part == [index |-> m.index, state |-> backend[m.id].state,
                 retval |-> backend[m.id].retval, error |-> backend[m.id].error]
        parts == chordZ[cb] \cup {part}
        ordered == InHeaderOrder(parts, 1, chordSize[cb])
        failed == \E p \in parts : p.state = "FAILURE"
        body == Set(Message(cb, AGGREGATE, Retvals(ordered), <<>>, 0, 0),
                    m.callback_queue)
    IN
    /\ t.pc = "part"
    /\ busy' = busy \ {t}
    /\ IF ChordComplete(Cardinality(parts), chordSize[cb])
       THEN /\ chordZ' = [chordZ EXCEPT ![cb] = {}]
            /\ IF failed
               THEN /\ backend' = SetState(cb, "FAILURE", NoVal, "ChordError")
                    /\ UNCHANGED <<queue, published, callbackSubmits>>
               ELSE /\ queue' = queue \cup {body}
                    /\ published' = [published EXCEPT ![cb] = Submission(body)]
                    /\ callbackSubmits' = [callbackSubmits EXCEPT ![cb] = @ + 1]
                    /\ UNCHANGED backend
       ELSE /\ chordZ' = [chordZ EXCEPT ![cb] = parts]
            /\ UNCHANGED <<queue, backend, published, callbackSubmits>>
    /\ UNCHANGED <<chordSize, requests, nextId, response, executions, retried,
                   redelivered, routes, registry, info, routed, sync, result_status,
                   clock, redis_client, limit, now, store, calls, auth>>

\* mutant: the task of a dead worker is given up, FAILURE (WorkerLostError)
\* is stored and the message is not restored
RestoreLost(t) ==
    /\ t.pc = "reserved"
    /\ backend' = SetState(t.msg.id, "FAILURE", NoVal, "WorkerLostError")
    /\ busy' = busy \ {t}
    /\ UNCHANGED <<queue, chordZ, chordSize, requests, nextId, response, published,
                   executions, retried, callbackSubmits, routes, registry, info, routed,
                   sync, result_status, clock, redis_client, limit, now, store, calls,
                   auth>>

\* a worker process dies holding an unacknowledged message: the broker
\* restores the message to the queue
Restore(t) ==
    /\ t.pc = "reserved"
    /\ queue' = queue \cup {t.msg}
    /\ busy' = busy \ {t}
    /\ UNCHANGED <<backend, chordZ, chordSize, requests, nextId, response, published,
                   executions, retried, callbackSubmits, routes, registry, info, routed,
                   sync, result_status, clock, redis_client, limit, now, store, calls,
                   auth>>

CrashReserved(t) == Restore(t) /\ UNCHANGED redelivered

\* the same, with the redelivery noted
CrashRedelivered(t) ==
    Restore(t) /\ redelivered' = redelivered \cup {t.msg.id}

\* mutant: the message of a dead worker is restored whatever the trace had
\* already written (task_acks_late with task_reject_on_worker_lost)
CrashRunningRestores(t) ==
    /\ t.pc \in {"running", "applied", "part"}
    /\ queue' = queue \cup {t.msg}
    /\ busy' = busy \ {t}
    /\ UNCHANGED <<backend, chordZ, chordSize, requests, nextId, response, published,
                   executions, retried, callbackSubmits, redelivered, routes, registry,
                   info, routed, sync, result_status, clock, redis_client, limit, now,
                   store, calls, auth>>

\* a worker process dies after the acknowledgement: the message is gone and
\* whatever the trace had not yet written is never written
CrashRunning(t) ==
    /\ t.pc \in {"running", "applied", "part"}
    /\ busy' = busy \ {t}
    /\ UNCHANGED <<queue, backend, chordZ, chordSize, requests, nextId, response,
                   published, executions, retried, callbackSubmits, redelivered, routes,
                   registry, info, routed, sync, result_status, clock, redis_client,
                   limit, now, store, calls, auth>>

\* the body of an execution takes its time: the clock of every job the pool
\* is running advances
Advance(seconds) ==
    LET running == {t.msg.id : t \in {u \in busy : u.pc = "running"}} IN
    /\ \E id \in running : clock[id] < task_time_limit
    /\ clock' = [id \in Ids |->
                     IF id \in running /\ clock[id] < task_time_limit
                     THEN clock[id] + seconds ELSE clock[id]]
    /\ UNCHANGED <<queue, busy, backend, chordZ, chordSize, requests, nextId, response,
                   published, executions, retried, callbackSubmits, redelivered, routes,
                   registry, info, routed, sync, result_status, redis_client, limit,
                   now, store, calls, auth>>

\* a step of the pool's clock
Elapse == Advance(Quantum)

\* the bodies that are running hang until the limit
Overrun == Advance(task_time_limit)

TimedOut(t) == t.pc = "running" /\ clock[t.msg.id] >= task_time_limit

\* the hard time limit: the pool kills the process of a job that has run
\* task_time_limit seconds and the worker stores FAILURE (TimeLimitExceeded)
\* for the task and for what is left of its chain; the handler is not
\* resumed, so its except clause and self.retry never run
OnTimeout(t) ==
    LET m == t.msg
        rest == {m.chain[k].id : k \in 1..Len(m.chain)}
    IN
    /\ TimedOut(t)
    /\ executions' = [executions EXCEPT ![m.id] = @ + 1]
    /\ backend' = [i \in Ids |->
                      IF i = m.id \/ i \in rest
                      THEN [state |-> "FAILURE", retval |-> NoVal,
                            error |-> "TimeLimitExceeded"]
                      ELSE backend[i]]
    /\ busy' = AfterStore(t)
    /\ UNCHANGED <<queue, chordZ, chordSize, requests, nextId, response, published,
                   retried, callbackSubmits, redelivered, routes, registry, info,
                   routed, sync, result_status, clock, redis_client, limit, now, store,
                   calls, auth>>

\* result_expires=settings.celery_result_expires (3600 s): the backend drops
\* the record of a task that long after it was last written; the longest
\* workflow takes 31 s of countdowns, so by then the messages of its time
\* are gone
Expire(id) ==
    /\ backend[id] # NoRecord
    /\ queue = {}
    /\ busy = {}
    /\ backend' = [backend EXCEPT ![id] = NoRecord]
    /\ UNCHANGED <<queue, busy, chordZ, chordSize, requests, nextId, response,
                   published, executions, retried, callbackSubmits, redelivered, routes,
                   registry, info, routed, sync, result_status, clock, redis_client,
                   limit, now, store, calls, auth>>

\* -------------------------------------------------- rate_limit (rate_limit.py)
\* mutant: except Exception, which takes the HTTPException too
SwallowedAny(exc) == TRUE

\* except redis.RedisError: pass
Swallowed(exc) == exc = "RedisError"

\* the call ends: it returns (the request is admitted), or exc was raised
\* inside the try block and is swallowed or leaves the function
Return(call) == [call EXCEPT !.pc = "done", !.outcome = "admitted"]
Raise(call, exc) ==
    [call EXCEPT !.pc = "done", !.error = exc,
                 !.outcome = IF Swallowed(exc) THEN "admitted" ELSE exc]

\* mutant: the limit tested with >=
ExceededAtLimit(current, max_requests) == current >= max_requests

\* if current > max_requests
Exceeded(current, max_requests) == current > max_requests

\* a request arrives: without a Redis client it is let through at once,
\* with one the key of the client and the current minute is made up
RateLimit(c, client_ip) ==
    /\ calls[c].pc = "idle"
    /\ \A b \in CallIds : b < c => calls[b].pc # "idle"
    /\ calls' = [calls EXCEPT ![c] =
                    IF ~redis_client
                    THEN Return([@ EXCEPT !.client_ip = client_ip, !.at = now])
                    ELSE [@ EXCEPT !.pc = "incr", !.client_ip = client_ip,
                                   !.at = now, !.key = Key(client_ip, now)]]
    /\ UNCHANGED <<queue, busy, backend, chordZ, chordSize, requests, nextId,
                   response, published, executions, retried, callbackSubmits,
                   redelivered, routes, registry, info, routed, sync, result_status,
                   clock, redis_client, limit, now, store, auth>>

\* current = redis_client.incr(key): Redis adds one to the key, a key it does
\* not hold counting from 0, and answers the new value; or the command
\* fails with a RedisError (ok = FALSE)
Increment(c, ok) ==
    LET call == calls[c]
        current == store[call.key].value + 1
    IN
    /\ call.pc = "incr"
    /\ IF ok
       THEN /\ store' = [store EXCEPT ![call.key].value = current]
            /\ calls' = [calls EXCEPT ![c] =
                            [call EXCEPT !.current = current,
                                         !.pc = IF current = 1 THEN "expire"
                                                ELSE "check"]]
       ELSE /\ calls' = [calls EXCEPT ![c] = Raise(call, "RedisError")]
            /\ UNCHANGED store
    /\ UNCHANGED <<queue, busy, backend, chordZ, chordSize, requests, nextId,
                   response, published, executions, retried, callbackSubmits,
                   redelivered, routes, registry, info, routed, sync, result_status,
                   clock, redis_client, limit, now, auth>>

\* if current == 1: redis_client.expire(key, window); or the command fails
SetExpiry(c, ok) ==
    LET call == calls[c] IN
    /\ call.pc = "expire"
    /\ IF ok
       THEN /\ store' = IF store[call.key] = NoKey THEN store
                        ELSE [store EXCEPT ![call.key].expire_at = now + limit.window]
            /\ calls' = [calls EXCEPT ![c].pc = "check"]
       ELSE /\ calls' = [calls EXCEPT ![c] = Raise(call, "RedisError")]
            /\ UNCHANGED store
    /\ UNCHANGED <<queue, busy, backend, chordZ, chordSize, requests, nextId,
                   response, published, executions, retried, callbackSubmits,
                   redelivered, routes, registry, info, routed, sync, result_status,
                   clock, redis_client, limit, now, auth>>

\* if current > max_requests: raise HTTPException(status_code=429, ...),
\* inside the try block; else the function returns
CheckLimit(c) ==
    LET call == calls[c] IN
    /\ call.pc = "check"
    /\ calls' = [calls EXCEPT ![c] =
                    IF Exceeded(call.current, limit.max_requests)
                    THEN Raise(call, "HTTPException 429")
                    ELSE Return(call)]
    /\ UNCHANGED <<queue, busy, backend, chordZ, chordSize, requests, nextId,
                   response, published, executions, retried, callbackSubmits,
                   redelivered, routes, registry, info, routed, sync, result_status,
                   clock, redis_client, limit, now, store, auth>>

\* a key whose time of expiry has come is gone
Expired(entry, t) == entry.expire_at # 0 /\ entry.expire_at <= t

\* time passes, and Redis drops the keys that expire
Pass ==
    /\ now < Horizon
    /\ now' = now + Step
    /\ store' = [k \in Keys |-> IF Expired(store[k], now') THEN NoKey ELSE store[k]]
    /\ UNCHANGED <<queue, busy, backend, chordZ, chordSize, requests, nextId,
                   response, published, executions, retried, callbackSubmits,
                   redelivered, routes, registry, info, routed, sync, result_status,
                   clock, redis_client, limit, calls, auth>>

\* ------------------------------------------------------ API key dependencies
\* a route that depends on verify_api_key gets the request
VerifyApiKey ==
    /\ auth.verify = NoAnswer
    /\ auth' = [auth EXCEPT !.verify = verify_api_key(auth.api_keys, auth.api_key)]
    /\ UNCHANGED <<queue, busy, backend, chordZ, chordSize, requests, nextId,
                   response, published, executions, retried, callbackSubmits,
                   redelivered, routes, registry, info, routed, sync, result_status,
                   clock, redis_client, limit, now, store, calls>>

\* a route that depends on optional_api_key gets the request
OptionalApiKey ==
    /\ auth.optional = NoAnswer
    /\ auth' = [auth EXCEPT
                   !.optional = optional_api_key(auth.api_keys, auth.api_key)]
    /\ UNCHANGED <<queue, busy, backend, chordZ, chordSize, requests, nextId,
                   response, published, executions, retried, callbackSubmits,
                   redelivered, routes, registry, info, routed, sync, result_status,
                   clock, redis_client, limit, now, store, calls>>

\* ------------------------------------------------------------ specification
\* the ids the API handed out: callers poll these
Returned == {requests[k].returned : k \in 1..Len(requests)}

Next ==
    \/ \E i \in Inputs : AddNumbers(i[1], i[2])
    \/ \E i \in Inputs : DivideNumbers(i[1], i[3])
    \/ \E i \in Inputs : ExecuteChainWorkflow(i[1], i[2], i[3])
    \/ \E i \in Inputs : ExecuteParallelWorkflow(i[1], i[2], i[3])
    \/ \E id \in Returned : GetTaskStatus(id)
    \/ \E m \in queue : Reserve(m)
    \/ \E t \in busy : Start(t)
    \/ \E t \in busy : ExecuteReturn(t)
    \/ \E t \in busy : ExecuteRetry(t)
    \/ \E t \in busy : ExecuteFail(t)
    \/ \E t \in busy : MarkDone(t)
    \/ \E t \in busy : ChordPartReturn(t)
    \/ \E t \in busy : CrashReserved(t)
    \/ \E t \in busy : CrashRunning(t)

Spec == Init /\ [][Next]_vars

\* the result backend over the long run: results expire, and callers ask for
\* the status of ids the API never handed out
StoreNext ==
    \/ Next
    \/ GetTaskStatus(UnknownId)
    \/ \E id \in Ids : Expire(id)

StoreSpec == Init /\ [][StoreNext]_vars

\* the same program under each route table src/core/queues.py may hold
RouteInit == \E TASK_ROUTES \in RouteTables : Boot(TASK_ROUTES, RegisteredTasks)

RouteSpec == RouteInit /\ [][Next]_vars

\* the workers started from src.workers.celery_worker, which imports the task
\* modules, or from src.core.celery_app, which imports none of them
Registries == {RegisteredTasks, {}}

RegistryInit == \E tasks \in Registries : Boot(SharedRoutes, tasks)

RegistryNext ==
    \/ Next
    \/ \E m \in queue : UnknownTask(m)

RegistrySpec == RegistryInit /\ [][RegistryNext]_vars

\* the RAG routes, the polling helper of the test script and the workers
RagNext ==
    \/ RunRagPipeline
    \/ QueryVectorstore
    \/ QueryVectorstoreSync
    \/ Get
    \/ PdfResult
    \/ TransformResult
    \/ QueryResult
    \/ \E id \in Returned \cap Ids, max_attempts \in 1..MaxAttempts :
           CheckTaskStatus(id, max_attempts)
    \/ Attempt
    \/ \E m \in queue : Reserve(m)
    \/ \E t \in busy : Start(t)
    \/ \E t \in busy, ok \in BOOLEAN : ExecuteRag(t, ok)
    \/ \E t \in busy : MarkDone(t)

RagSpec == Init /\ [][RagNext]_vars

\* the submissions of every route on the clock: a retry is executed when its
\* ETA has come
TimeNext ==
    \/ \E i \in Inputs : AddNumbers(i[1], i[2])
    \/ \E i \in Inputs : DivideNumbers(i[1], i[3])
    \/ \E i \in Inputs : ExecuteChainWorkflow(i[1], i[2], i[3])
    \/ \E i \in Inputs : ExecuteParallelWorkflow(i[1], i[2], i[3])
    \/ \E m \in queue : Reserve(m)
    \/ \E t \in busy : StartDue(t)
    \/ \E t \in busy : ExecuteReturn(t)
    \/ \E t \in busy : ExecuteRetry(t)
    \/ \E t \in busy : ExecuteFail(t)
    \/ \E t \in busy : MarkDone(t)
    \/ \E t \in busy : ChordPartReturn(t)
    \/ Tick

TimeSpec == Init /\ [][TimeNext]_vars

\* the queue router alone: the listing and the lookup, under each route table
InfoNext ==
    \/ GetTaskInfo
    \/ \E task_name \in RegisteredTasks \cup {UNKNOWN_TASK} : RouteFor(task_name)

InfoSpec == RouteInit /\ [][InfoNext]_vars

\* the submissions of every route, delivered again after every death of a
\* worker that held them
RedeliveryNext ==
    \/ \E i \in Inputs : AddNumbers(i[1], i[2])
    \/ \E i \in Inputs : DivideNumbers(i[1], i[3])
    \/ \E i \in Inputs : ExecuteChainWorkflow(i[1], i[2], i[3])
    \/ \E i \in Inputs : ExecuteParallelWorkflow(i[1], i[2], i[3])
    \/ \E m \in queue : Reserve(m)
    \/ \E t \in busy : Start(t)
    \/ \E t \in busy : ExecuteReturn(t)
    \/ \E t \in busy : ExecuteRetry(t)
    \/ \E t \in busy : ExecuteFail(t)
    \/ \E t \in busy : MarkDone(t)
    \/ \E t \in busy : ChordPartReturn(t)
    \/ \E t \in busy : CrashRedelivered(t)

RedeliverySpec == Init /\ [][RedeliveryNext]_vars

\* the submissions of the single-task routes under the time limit: bodies
\* that take their time, the pool's clock, and workers that die
LimitNext ==
    \/ \E i \in Inputs : AddNumbers(i[1], i[2])
    \/ \E i \in Inputs : DivideNumbers(i[1], i[3])
    \/ \E m \in queue : Reserve(m)
    \/ \E t \in busy : Start(t)
    \/ \E t \in busy : ExecuteReturn(t)
    \/ \E t \in busy : ExecuteRetry(t)
    \/ \E t \in busy : ExecuteFail(t)
    \/ \E t \in busy : MarkDone(t)
    \/ Elapse
    \/ \E t \in busy : OnTimeout(t)
    \/ \E t \in busy : CrashRunning(t)

\* a worker that lives keeps consuming and its pool keeps running: every
\* step of a worker that stays possible is taken, and time passes; no worker
\* is bound to die and no caller is bound to submit
WorkerNext ==
    \/ \E m \in queue : Reserve(m)
    \/ \E t \in busy : Start(t)
    \/ \E t \in busy : ExecuteReturn(t)
    \/ \E t \in busy : ExecuteRetry(t)
    \/ \E t \in busy : ExecuteFail(t)
    \/ \E t \in busy : MarkDone(t)
    \/ Elapse
    \/ \E t \in busy : OnTimeout(t)

LimitSpec == Init /\ [][LimitNext]_vars /\ WF_vars(WorkerNext)

\* the rate limiter alone: with or without a Redis client, called with each
\* limit and window, by requests of two clients
RateInit ==
    \E client \in BOOLEAN, max_requests \in 1..MaxLimit, window \in Windows :
        /\ Workers(SharedRoutes, RegisteredTasks)
        /\ Limiter(client, max_requests, window)
        /\ auth = NoAuth

RateNext ==
    \/ \E c \in CallIds, client_ip \in Clients : RateLimit(c, client_ip)
    \/ \E c \in CallIds, ok \in BOOLEAN : Increment(c, ok)
    \/ \E c \in CallIds, ok \in BOOLEAN : SetExpiry(c, ok)
    \/ \E c \in CallIds : CheckLimit(c)
    \/ Pass

RateSpec == RateInit /\ [][RateNext]_vars

\* the API key dependencies alone, for every settings.api_keys and every
\* X-API-Key header, absent or present, up to MaxLen characters
AuthInit ==
    \E api_keys \in Strings, api_key \in Strings \cup {None} :
        /\ Workers(SharedRoutes, RegisteredTasks)
        /\ Limiter(TRUE, 60, 60)
        /\ auth = [NoAuth EXCEPT !.api_keys = api_keys, !.api_key = api_key]

AuthNext ==
    \/ VerifyApiKey
    \/ OptionalApiKey

AuthSpec == AuthInit /\ [][AuthNext]_vars

\* the routes that divide, alone or as the second step of a chain, under
\* each route table, with workers that die holding a message
RetryNext ==
    \/ \E i \in Inputs : DivideNumbers(i[1], i[3])
    \/ \E i \in Inputs : ExecuteChainWorkflow(i[1], i[2], i[3])
    \/ \E m \in queue : Reserve(m)
    \/ \E t \in busy : Start(t)
    \/ \E t \in busy : ExecuteReturn(t)
    \/ \E t \in busy : ExecuteRetry(t)
    \/ \E t \in busy : ExecuteFail(t)
    \/ \E t \in busy : MarkDone(t)
    \/ \E t \in busy : CrashReserved(t)

RetrySpec == RouteInit /\ [][RetryNext]_vars

\* the requests that make a body fail: a zero divisor, an int sum no float
\* holds, and a dividend no float holds
FailInputs == {<<10, 5, 0>>, <<10, Huge, 2>>, <<Huge, 5, 1>>}

\* the four tasks of basic_tasks.py, process_data alone and the others as
\* header and callback of a chord, with requests whose bodies fail, and the
\* time limit
FailNext ==
    \/ ProcessData(1)
    \/ \E i \in FailInputs : ExecuteParallelWorkflow(i[1], i[2], i[3])
    \/ \E m \in queue : Reserve(m)
    \/ \E t \in busy : Start(t)
    \/ \E t \in busy : ExecuteReturn(t)
    \/ \E t \in busy : ExecuteRetry(t)
    \/ \E t \in busy : ExecuteFail(t)
    \/ \E t \in busy : ExecuteError(t)
    \/ \E t \in busy : MarkDone(t)
    \/ \E t \in busy : ChordPartReturn(t)
    \/ Overrun
    \/ \E t \in busy : OnTimeout(t)

FailSpec == Init /\ [][FailNext]_vars

\* ------------------------------------------------------------------ claims
Messages == queue \cup {t.msg : t \in busy}

Submitted(id) == published[id] # NoSubmission

\* the submissions of tasks.divide_numbers with divisor 0
DivideByZero(id) ==
    /\ Submitted(id)
    /\ published[id].task = DIVIDE
    /\ IsZero(published[id].args[2])

Terminal(id) == backend[id].state \in {"SUCCESS", "FAILURE"}

\* C1: a tasks.divide_numbers submission with divisor 0 is retried exactly 5
\* times, 6 executions in all: a 6th retry is never scheduled, a 7th execution
\* never happens, it never ends SUCCESS, and it is FAILURE exactly when the 6
\* executions are done, of which 5 scheduled a retry.
C1_RetriesExactlyFive ==
    \A id \in Ids : DivideByZero(id) =>
        /\ retried[id] <= 5
        /\ executions[id] <= 6
        /\ backend[id].state # "SUCCESS"
        /\ (backend[id].state = "FAILURE") <=> (executions[id] = 6)
        /\ (backend[id].state = "FAILURE") => (retried[id] = 5)
        /\ executions[id] < 6 => retried[id] = executions[id]

C1_Witness ==
    \E id \in Ids :
        /\ DivideByZero(id)
        /\ backend[id].state = "FAILURE"
        /\ executions[id] = 6
        /\ retried[id] = 5

\* C2: retries never exceeds max_retries, for every message of every task, in
\* the queue or held by a worker (redelivered or not); a failure at
\* retries = max_retries ends the submission FAILURE and publishes no message.
C2_RetriesBounded ==
    /\ \A m \in Messages : m.retries <= max_retries
    /\ \A id \in Ids :
        /\ retried[id] <= max_retries
        /\ (Submitted(id) /\ backend[id].state = "FAILURE") =>
              /\ \A m \in queue : m.id # id
              /\ \A t \in busy : t.msg.id = id => t.pc = "part"

\* a worker executes the attempt with retries = max_retries
C2_Witness ==
    \E t \in busy :
        /\ t.pc = "running"
        /\ t.msg.retries = max_retries
        /\ BodyRaises(t.msg)

\* the state transitions of a submission
Transitions ==
    {<<"PENDING", "STARTED">>, <<"STARTED", "SUCCESS">>, <<"STARTED", "FAILURE">>,
     <<"STARTED", "RETRY">>, <<"RETRY", "STARTED">>}

\* a worker is executing id, its body raises and retries are left
FailingWithRetriesLeft(id) ==
    \E t \in busy :
        /\ t.msg.id = id
        /\ t.pc = "running"
        /\ BodyRaises(t.msg)
        /\ t.msg.retries < max_retries

ChainRequests == {requests[k] : k \in {j \in 1..Len(requests) : requests[j].kind = "chain"}}
ChordRequests == {requests[k] : k \in {j \in 1..Len(requests) : requests[j].kind = "chord"}}

\* the rational q is n / d
IsQuotient(q, n, d) == q[2] > 0 /\ q[1] * d = n * q[2]

C5_ChainResult ==
    \A r \in ChainRequests :
        /\ r.returned = r.ids[2]
        /\ Submitted(r.ids[2]) =>
              published[r.ids[2]] = [task |-> DIVIDE,
                                     args |-> <<Num(r.x + r.y), Num(r.z)>>]
        /\ backend[r.returned].state = "SUCCESS" =>
              /\ r.z # 0
              /\ IsQuotient(backend[r.returned].retval, r.x + r.y, r.z)
        /\ (response.task_id = r.returned /\ response.status = "Completed") =>
              /\ response.http = 200
              /\ IsQuotient(response.result, r.x + r.y, r.z)

\* (10 + 20) / 5 is answered Completed with 6
C5_Witness ==
    \E r \in ChainRequests :
        /\ <<r.x, r.y, r.z>> = <<10, 20, 5>>
        /\ response.task_id = r.returned
        /\ response.status = "Completed"
        /\ response.result = <<6, 1>>

\* C6: when a step of a chain is FAILURE no later step of it is ever
\* published, and the status route, asked for the returned id after the
\* failure, answers with status Failed and the failing step's error.
C6_ChainFailureObserved ==
    \A r \in ChainRequests :
        /\ \A k \in 1..Len(r.ids) :
              (Submitted(r.ids[k]) /\ backend[r.ids[k]].state = "FAILURE") =>
                  \A j \in (k + 1)..Len(r.ids) : ~Submitted(r.ids[j])
        /\ (/\ response.task_id = r.returned
            /\ response.status # "Pending"
            /\ backend[r.returned].state = "FAILURE") =>
              /\ response.http = 200
              /\ response.status = "Failed"
              /\ response.error = "ZeroDivisionError"

Header(r) == {r.ids[1], r.ids[2]}
Callback(r) == r.ids[3]

\* C7: the callback of a chord is published at most once, and only when every
\* header member is SUCCESS or FAILURE, under every interleaving of the
\* members on the workers.
C7_CallbackOnceAfterHeader ==
    \A r \in ChordRequests :
        /\ callbackSubmits[Callback(r)] <= 1
        /\ Cardinality({m \in Messages : m.id = Callback(r)}) <= 1
        /\ Submitted(Callback(r)) => \A h \in Header(r) : Terminal(h)
        /\ callbackSubmits[Callback(r)] = 1 <=> Submitted(Callback(r))

\* the callback has been published, once, after both header members ended,
\* and waits in the queue
C7_Witness ==
    \E r \in ChordRequests :
        /\ callbackSubmits[Callback(r)] = 1
        /\ \A h \in Header(r) : Terminal(h)
        /\ \E m \in queue : m.id = Callback(r)

\* C8: for a chord add(x, y), divide(x, z) with z # 0 the callback is
\* published once, with the list [x + y, x / z] in header order whichever
\* member finished first; a SUCCESS stored for it, and a "Completed" answer of
\* the status route for the returned id, carry (x + y) + x / z.
C8_ChordResult ==
    \A r \in ChordRequests : r.z # 0 =>
        /\ r.returned = Callback(r)
        /\ Submitted(Callback(r)) =>
              /\ published[Callback(r)].task = AGGREGATE
              /\ Len(published[Callback(r)].args) = 2
              /\ published[Callback(r)].args[1] = Num(r.x + r.y)
              /\ IsQuotient(published[Callback(r)].args[2], r.x, r.z)
              /\ callbackSubmits[Callback(r)] = 1
        /\ backend[Callback(r)].state # "FAILURE"
        /\ backend[Callback(r)].state = "SUCCESS" =>
              IsQuotient(backend[Callback(r)].retval, (r.x + r.y) * r.z + r.x, r.z)
        /\ (response.task_id = r.returned /\ response.status = "Completed") =>
              IsQuotient(response.result, (r.x + r.y) * r.z + r.x, r.z)

\* (10 + 5) + (10 / 2) is answered Completed with 20
C8_Witness ==
    \E r \in ChordRequests :
        /\ <<r.x, r.y, r.z>> = <<10, 5, 2>>
        /\ published[Callback(r)].args = <<Num(15), Num(5)>>
        /\ response.task_id = r.returned
        /\ response.status = "Completed"
        /\ response.result = <<20, 1>>

\* C9: a FAILURE header member does not abort the chord: the callback is
\* never failed on the member's behalf, and once every member is terminal
\* and the chord is settled the callback has been published exactly once.
C9_ChordNotAborted ==
    \A r \in ChordRequests :
        /\ backend[Callback(r)].error # "ChordError"
        /\ ((\A h \in Header(r) : Terminal(h)) /\ backend[Callback(r)].state # "PENDING")
              => callbackSubmits[Callback(r)] = 1

\* C10: the status route, asked for an id whose result is FAILURE, answers
\* with status Failed and the stored error; it raises nothing and does not
\* answer Completed.
C10_FailedStatusReturned ==
    \A id \in Ids :
        (/\ response.task_id = id
         /\ response.status # "Pending"
         /\ backend[id].state = "FAILURE") =>
            /\ response.http = 200
            /\ response.status = "Failed"
            /\ response.error = backend[id].error

\* C11: GET /tasks/status/{task_id} for an id that was never submitted answers
\* NotFound, which differs from the Pending answer of a submitted task that
\* has not started.
C11_UnknownIdNotFound ==
    response.task_id = UnknownId =>
        /\ response.status = "NotFound"
        /\ response.status # "Pending"

\* C12: no submission is lost by a worker crash: a submitted task that is not
\* yet SUCCESS or FAILURE always has a message, in the queue or held by a
\* worker, so that it can still reach a terminal state.
C12_NoSubmissionLost ==
    \A id \in Ids :
        (Submitted(id) /\ ~Terminal(id)) => \E m \in Messages : m.id = id

\* C13 as stated: a SUCCESS or FAILURE record never changes again, and a
\* status answer given for a terminal id is the answer of every later call.
C13_TerminalNeverChanges ==
    /\ [][\A id \in Ids : Terminal(id) => backend'[id] = backend[id]]_vars
    /\ [](\A id \in Ids :
            (response.task_id = id /\ response.status # "Pending")
                => StatusResponse(id) = response)

\* C13, amended: a SUCCESS or FAILURE record stays as it is until it expires,
\* and a status answer given for a terminal id is the answer of every later
\* call made while the record has not expired.
C13_TerminalUntilExpiry ==
    /\ [][\A id \in Ids :
            Terminal(id) => backend'[id] \in {backend[id], NoRecord}]_vars
    /\ [](\A id \in Ids :
            (response.task_id = id /\ response.status # "Pending" /\ Terminal(id))
                => StatusResponse(id) = response)

\* a terminal id has been asked for and its record is still stored
C13_Witness ==
    \E id \in Ids :
        /\ Terminal(id)
        /\ response.task_id = id
        /\ response.status = "Completed"
        /\ response.result = backend[id].retval

\* what a single delivery of a submission of tasks.add_numbers or
\* tasks.divide_numbers leaves in the result backend
Outcome(sub) ==
    IF sub.task = DIVIDE /\ DivideRaises(sub.args)
    THEN [state |-> "FAILURE", retval |-> NoVal, error |-> "ZeroDivisionError"]
    ELSE [state |-> "SUCCESS", retval |-> RunBody(sub.task, sub.args), error |-> ""]

\* C14: a submission of tasks.add_numbers or tasks.divide_numbers that was
\* delivered again ends with the terminal state and result of a single
\* delivery, and its handler ran as often as after a single delivery.
C14_RedeliverySameResult ==
    \A id \in Ids :
        (Submitted(id) /\ published[id].task \in {ADD, DIVIDE} /\ Terminal(id)) =>
            /\ backend[id] = Outcome(published[id])
            /\ executions[id] = IF DivideByZero(id) THEN max_retries + 1 ELSE 1

\* a submission delivered more than once has ended, with a quotient
C14_Witness ==
    \E id \in redelivered :
        /\ published[id].task = DIVIDE
        /\ backend[id].state = "SUCCESS"
        /\ backend[id] = Outcome(published[id])

\* C15: every message the API's submissions put on the broker (single tasks,
\* chain steps, chord header members, the chord callback, their retries) is
\* on the queue the route table gives for the message's own task name.
C15_RoutedByOwnName ==
    \A m \in Messages : m.queue = get_queue_for_task(m.task)

Unregistered(id) == Submitted(id) /\ published[id].task \notin registry

\* C17: a submission of a task the worker has not registered is not dropped:
\* once its message has left the queue its result is FAILURE with the error
\* NotRegistered, its handler never ran, no retry was published, and it never
\* occupies a worker, which goes on with the other messages.
C17_UnregisteredFails ==
    /\ \A id \in Ids : Unregistered(id) =>
          /\ (\A m \in queue : m.id # id) =>
                (backend[id].state = "FAILURE" /\ backend[id].error = "NotRegistered")
          /\ backend[id].state \in {"PENDING", "FAILURE"}
          /\ executions[id] = 0
          /\ retried[id] = 0
    /\ \A t \in busy : t.msg.task \in registry

\* two submissions of unregistered tasks have both ended FAILURE
C17_Witness ==
    \E i, j \in Ids :
        /\ i # j
        /\ Unregistered(i) /\ Unregistered(j)
        /\ backend[i].state = "FAILURE" /\ backend[i].error = "NotRegistered"
        /\ backend[j].state = "FAILURE" /\ backend[j].error = "NotRegistered"

\* C18: every synchronous wait returns within the maximum number of polls its
\* caller supplied: a wait never polls more often than max_attempts, the
\* waits of the RAG routes no more often than the largest maximum a caller
\* supplies.
C18_WaitsBounded ==
    sync.polls <= IF sync.route = "check_task_status" THEN sync.max_attempts
                  ELSE MaxAttempts

\* the ids whose task body failed: the service call of a RAG task raised, or
\* the division raised in every execution
BodyFailed(id) ==
    \/ result_status[id] = "error"
    \/ DivideByZero(id) /\ executions[id] > 0

\* C19: a task whose body failed never ends SUCCESS (Completed); its terminal
\* record is FAILURE with an error descriptor.
C19_FailedBodyFails ==
    \A id \in Ids : (BodyFailed(id) /\ Terminal(id)) =>
        /\ backend[id].state = "FAILURE"
        /\ backend[id].error # ""

\* the delays of the claim, by the number of the retry
Delays == <<1, 2, 4, 8, 16>>

\* C20: the message of retry k + 1 of tasks.divide_numbers (retries_so_far = k)
\* carries the countdown 1 * 2^k, that is 1, 2, 4, 8, 16 seconds for
\* k = 0..4, each longer than the one before, and the execution of a retry
\* never starts before that many seconds have passed since the failure that
\* published it.
C20_BackoffDelays ==
    /\ \A m \in Messages : m.retries > 0 =>
          /\ m.task = DIVIDE
          /\ m.countdown = Delays[m.retries]
          /\ m.countdown = 1 * Pow2(m.retries - 1)
          /\ m.retries > 1 => m.countdown > Delays[m.retries - 1]
    /\ \A t \in busy : (t.pc # "reserved" /\ t.msg.retries > 0) =>
          t.msg.waited >= Delays[t.msg.retries]

\* the fifth retry runs, 16 seconds after the failure of the fourth
C20_Witness ==
    \E t \in busy :
        /\ t.pc = "running"
        /\ t.msg.task = DIVIDE
        /\ t.msg.retries = 5
        /\ t.msg.countdown = 16
        /\ t.msg.waited = 16

\* the time limit runs per execution: whenever the pool accepts a job, a
\* first delivery or a retry, the clock of the task is back at 0, and
\* FAILURE (TimeLimitExceeded) is stored only for a job whose own clock has
\* reached the limit
LimitPerExecution ==
    /\ [][\A t \in busy :
              (t.pc = "reserved" /\ busy' = Move(t, "running"))
                  => clock'[t.msg.id] = 0]_vars
    /\ [][\A id \in Ids :
              (backend'[id].error = "TimeLimitExceeded"
                   /\ backend[id].error # "TimeLimitExceeded")
                  => \E t \in busy : t.pc = "running" /\ clock[t.msg.id] >= task_time_limit
                                        /\ (t.msg.id = id
                                            \/ \E k \in 1..Len(t.msg.chain) :
                                                   t.msg.chain[k].id = id)]_vars

\* a retried execution is killed at the limit, counted from its own start
LimitOnRetry ==
    \E id \in Ids : backend[id].error = "TimeLimitExceeded" /\ retried[id] >= 1

RedisAvailable == redis_client /\ \A c \in CallIds : calls[c].error # "RedisError"

\* the requests of a client, arrived from second `from` up to second `to`
\* excluded, that rate_limit admitted
Admitted(client_ip, from, to) ==
    {c \in CallIds : /\ calls[c].outcome = "admitted"
                     /\ calls[c].client_ip = client_ip
                     /\ from <= calls[c].at /\ calls[c].at < to}

\* C22: with Redis available, at most max_requests requests of one client
\* arriving within any span of `window` seconds are admitted (a span with
\* more of them holds one that starts at the arrival of its first), every
\* further one being answered 429
C22_AtMostMaxPerWindow ==
    RedisAvailable =>
        \A c \in CallIds :
            calls[c].pc # "idle" =>
                /\ Cardinality(Admitted(calls[c].client_ip, calls[c].at,
                                        calls[c].at + limit.window))
                       <= limit.max_requests
                /\ calls[c].outcome \in {"", "admitted", "HTTPException 429"}

\* two requests of one client, half a minute apart on the two sides of a
\* minute's end, each the first under its key, both admitted
AcrossMinutes ==
    /\ RedisAvailable
    /\ limit = Limit(1, MINUTE)
    /\ \E c, d \in CallIds :
           /\ calls[c].client_ip = calls[d].client_ip
           /\ calls[c].outcome = "admitted" /\ calls[d].outcome = "admitted"
           /\ calls[c].at = MINUTE - Step /\ calls[d].at = MINUTE
           /\ calls[c].current = 1 /\ calls[d].current = 1
           /\ calls[c].key # calls[d].key

\* the calls made under key k, and those of them that were admitted
Under(k) == {c \in CallIds : calls[c].pc # "idle" /\ calls[c].key = k}
AdmittedUnder(k) == {c \in Under(k) : calls[c].outcome = "admitted"}

Min(a, b) == IF a < b THEN a ELSE b

\* C27: with Redis available, of the calls of one client that fall under the
\* same calendar-minute key no two read the same counter value, and once
\* the N of them have ended exactly min(N, max_requests) were admitted
C27_CountedOnce ==
    RedisAvailable =>
        \A k \in Keys :
            /\ \A c, d \in Under(k) :
                   (c # d /\ calls[c].current > 0 /\ calls[d].current > 0)
                       => calls[c].current # calls[d].current
            /\ (\A c \in Under(k) : calls[c].pc = "done")
                   => Cardinality(AdmittedUnder(k))
                          = Min(Cardinality(Under(k)), limit.max_requests)

\* C28: rate_limit fails open: without a Redis client, or when incr or
\* expire fails with a Redis error, the request is admitted and nothing is
\* raised; the one error that leaves rate_limit is the HTTP 429 of a counter
\* above max_requests, which the Redis error handler does not swallow
C28_FailsOpen ==
    \A c \in CallIds :
        LET call == calls[c] IN
        /\ (~redis_client /\ call.pc # "idle")
               => call.pc = "done" /\ call.outcome = "admitted"
        /\ call.error = "RedisError" => call.outcome = "admitted"
        /\ call.outcome \in {"", "admitted", "HTTPException 429"}
        /\ call.pc = "done" =>
               (call.outcome = "HTTPException 429"
                    <=> (call.error # "RedisError"
                           /\ call.current > limit.max_requests))

\* a call admitted after a failed Redis command, and one refused with 429
C28_Witness ==
    /\ \E c \in CallIds :
           calls[c].error = "RedisError" /\ calls[c].outcome = "admitted"
    /\ \E c \in CallIds : calls[c].outcome = "HTTPException 429"

Blanks == {str \in Strings : \A i \in 1..Len(str) : str[i] = " "}

\* key is one of the configured keys: it is not empty, holds no comma and
\* neither starts nor ends with a blank, and settings.api_keys holds it,
\* blanks around it or not, from its start or a comma to a comma or its end
Configured(api_keys, key) ==
    /\ key # <<>>
    /\ \A i \in 1..Len(key) : key[i] # ","
    /\ key[1] # " " /\ key[Len(key)] # " "
    /\ \E lo \in 1..Len(api_keys), hi \in 1..Len(api_keys) :
           /\ lo = 1 \/ api_keys[lo - 1] = ","
           /\ hi = Len(api_keys) \/ api_keys[hi + 1] = ","
           /\ \E before, after \in Blanks :
                  SubSeq(api_keys, lo, hi) = before \o key \o after

\* no key is configured: settings.api_keys is empty, or commas and blanks
NoneConfigured(api_keys) == \A i \in 1..Len(api_keys) : api_keys[i] \in {",", " "}

\* C23: verify_api_key returns the presented key only if it is not empty
\* and is one of the configured keys; a missing key is refused with 401, a
\* present key that is not configured with 403, and with no key configured
\* every request is refused. optional_api_key never refuses: it returns the
\* key if it is configured and None otherwise
C23_KeyChecked ==
    LET present == auth.api_key # None /\ auth.api_key # <<>>
        configured == present /\ Configured(auth.api_keys, auth.api_key)
    IN
    /\ auth.verify # NoAnswer =>
           /\ auth.verify.http = 200 <=> configured
           /\ auth.verify.http = 200 => auth.verify.value = auth.api_key
           /\ ~present => auth.verify = Answer(401, None)
           /\ (present /\ ~configured) => auth.verify = Answer(403, None)
           /\ NoneConfigured(auth.api_keys) => auth.verify.http \in {401, 403}
    /\ auth.optional # NoAnswer =>
           /\ auth.optional.http = 200
           /\ auth.optional.value = IF configured THEN auth.api_key ELSE None

\* a key written with blanks around it in a list of two is presented and
\* both dependencies return it
C23_Witness ==
    /\ \E i \in 1..Len(auth.api_keys) : auth.api_keys[i] = ","
    /\ \E i \in 1..Len(auth.api_keys) : auth.api_keys[i] = " "
    /\ auth.verify = Answer(200, auth.api_key)
    /\ auth.optional = Answer(200, auth.api_key)

\* the submission a message carries: what a retry must leave as it is
Carried(m) ==
    [id |-> m.id, task |-> m.task, args |-> m.args, queue |-> m.queue,
     chain |-> m.chain, chord |-> m.chord, index |-> m.index,
     callback_queue |-> m.callback_queue]

\* C24: a retry publishes the same submission again, with the same task
\* id, task name, arguments and queue and with retries one higher; and
\* nothing but a retry changes the retries of a submission: a message first
\* published has none, and every other step leaves the message as it is
C24_RetrySameSubmission ==
    [][\A n \in Messages' :
           IF \E m \in Messages : m.id = n.id
           THEN \A m \in Messages :
                    m.id = n.id =>
                        /\ Carried(n) = Carried(m)
                        /\ IF retried'[n.id] = retried[n.id] + 1
                           THEN /\ n.retries = m.retries + 1
                                /\ n \in queue'
                                /\ backend'[n.id].state = "RETRY"
                           ELSE n.retries = m.retries
           ELSE n.retries = 0 /\ retried'[n.id] = 0]_vars

\* a division by zero in its last retry, on a queue of its own
C24_Witness ==
    \E m \in Messages :
        /\ m.retries = max_retries
        /\ m.queue # DEFAULT_QUEUE
        /\ retried[m.id] = max_retries
        /\ Carried(m) = Carried(Set(Message(m.id, published[m.id].task,
                                             published[m.id].args, <<>>, 0, 0),
                                     m.queue))

\* the task a trace executes ends FAILURE in this step
FailsNow(t) ==
    /\ t.pc = "running"
    /\ backend'[t.msg.id].state = "FAILURE"
    /\ backend[t.msg.id].state # "FAILURE"

\* C25: only divide_numbers retries, and only on a ZeroDivisionError: a
\* retry is published, and RETRY stored, for no other task and no other
\* failure; every other failure of divide_numbers and every failure of
\* add_numbers, process_data and aggregate_results takes the submission
\* from STARTED straight to FAILURE, no retry being published
C25_RetryOnlyOnZeroDivision ==
    /\ [][\A id \in Ids :
              (retried'[id] # retried[id]
                   \/ (backend'[id].state = "RETRY" /\ backend[id].state # "RETRY"))
                  => \E t \in busy :
                         /\ t.pc = "running" /\ t.msg.id = id
                         /\ t.msg.task = DIVIDE /\ DivideRaises(t.msg.args)
                         /\ backend'[id].error = "ZeroDivisionError"]_vars
    /\ [][\A t \in busy :
              (FailsNow(t) /\ ~(t.msg.task = DIVIDE
                                 /\ backend'[t.msg.id].error = "ZeroDivisionError"))
                  => /\ backend[t.msg.id].state = "STARTED"
                     /\ retried' = retried
                     /\ \A m \in queue' : m.id # t.msg.id]_vars
    /\ [](\A id \in Ids :
              (Submitted(id) /\ published[id].task # DIVIDE)
                  => retried[id] = 0 /\ backend[id].state # "RETRY")

\* each of the four tasks has failed: process_data and add_numbers at the
\* time limit, divide_numbers and aggregate_results with an OverflowError
C25_Witness ==
    /\ \E id \in Ids : /\ published[id].task = DIVIDE
                        /\ backend[id].error = "OverflowError"
                        /\ retried[id] = 0
    /\ \E id \in Ids : /\ published[id].task = ADD
                        /\ backend[id].error = "TimeLimitExceeded"

\* the callback of a chord fails on the int of its header
FailedAggregate ==
    \E id \in Ids : /\ published[id].task = AGGREGATE
                     /\ backend[id].error = "OverflowError"

\* process_data runs into the time limit
FailedProcessData ==
    \E id \in Ids : /\ published[id].task = PROCESS_DATA
                     /\ backend[id].error = "TimeLimitExceeded"

\* the tasks of POST /rag/pipeline, in the order of the route
Stages == <<LOAD_PDF, SPLIT_DOCUMENTS, CREATE_VECTORSTORE>>

\* the ids published for a task
PublishedAs(task) == {id \in Ids : Submitted(id) /\ published[id].task = task}

\* the task completed and the dict it returned has status "success"
Succeeded(id) == backend[id].state = "SUCCESS" /\ result_status[id] = "success"

\* C26: run_rag_pipeline submits tasks.split_documents only after
\* tasks.load_pdf has completed with status "success" and
\* tasks.create_vectorstore only after tasks.split_documents has completed
\* with status "success"; when one of the two returns status "error" the
\* request ends with HTTP 400 and no later task is submitted; and each of
\* the three tasks is submitted at most once per request
C26_PipelineInOrder ==
    LET ids == sync.task_ids
        n == Len(ids)
    IN
    /\ sync.route = "run_rag_pipeline" =>
           /\ n \in 1..Len(Stages)
           /\ \A k \in 1..n : published[ids[k]].task = Stages[k]
           /\ \A k \in 2..n : Succeeded(ids[k - 1])
           /\ \A k \in 1..n :
                  (k < Len(Stages) /\ Terminal(ids[k])
                       /\ result_status[ids[k]] = "error")
                      => /\ k = n
                         /\ sync.pc = "returned" => sync.http = 400
           /\ (sync.pc = "returned" /\ sync.http = 400)
                  => result_status[ids[n]] = "error"
    /\ Cardinality(PublishedAs(LOAD_PDF))
           = Cardinality({k \in 1..Len(requests) : requests[k].kind = "pipeline"})
    /\ Cardinality(PublishedAs(SPLIT_DOCUMENTS))
           <= Cardinality({id \in PublishedAs(LOAD_PDF) : Succeeded(id)})
    /\ Cardinality(PublishedAs(CREATE_VECTORSTORE))
           <= Cardinality({id \in PublishedAs(SPLIT_DOCUMENTS) : Succeeded(id)})

\* a request that went through: the three tasks published, one each, HTTP 200
C26_Witness ==
    /\ sync.route = "run_rag_pipeline" /\ sync.pc = "returned" /\ sync.http = 200
    /\ Len(sync.task_ids) = Len(Stages)
    /\ \A k \in 1..Len(Stages) : Cardinality(PublishedAs(Stages[k])) >= 1

\* a request ended with HTTP 400 by the "error" of tasks.split_documents
SplitFailed ==
    /\ sync.route = "run_rag_pipeline" /\ sync.pc = "returned" /\ sync.http = 400
    /\ Len(sync.task_ids) = 2
    /\ PublishedAs(CREATE_VECTORSTORE) = {}

====
